---- MODULE Spec2Model ----
(***************************************************************************)
(* The MySQL MCP server (src/unnamed/part_000): the line handler, the      *)
(* JSON-RPC dispatcher handleRequest, the timeout-bounded executor         *)
(* executeWithTimeout and the connection pool it borrows from.             *)
(*                                                                         *)
(* One action is one turn of the Node.js event loop: the code that runs    *)
(* between two suspension points (await) runs without interleaving.        *)
(***************************************************************************)
EXTENDS Integers, Sequences, FiniteSets, TLC

VARIABLES
  proc,    \* "running"; "closing" while the 'close' handler awaits pool.end();
           \* "exit0" after process.exit(0); "exit1" once an unhandled rejection
           \* ended the process
  nread,   \* number of input lines the 'line' handler has been called for
  last,    \* the latest step of a line handler: the line read or the request
           \* answered, and what was written to standard output in that step
  calls,   \* per connection: the executeWithTimeout call that has borrowed it
  kills,   \* per connection: the timeout callback that has borrowed it as killConn
  pool,    \* the mysql2 pool: connections created, free connections, wait queue
  sess,    \* per connection: what its server-side session is executing
  queryTimeout,  \* the global queryTimeout, in milliseconds
  stmt     \* the statement text prepared last (HintSpec): the argument sql of
           \* executeWithTimeout and executeSql, the text passed to conn.execute

vars == <<proc, nread, last, calls, kills, pool, sess, queryTimeout, stmt>>

---------------------------------------------------------------------------
(* Bounds of the model *)

\* input lines read under Spec (all kinds of lines)
MaxLines == 2
\* input lines read under PoolSpec (tools/call lines only): one more than the pool holds
MaxPoolLines == 6

\* connectionLimit of createPool
connectionLimit == 5

\* DB_QUERY_TIMEOUT unset: parseInt(undefined) || 10
DefaultTimeoutSeconds == 10

\* values of parseInt(process.env.DB_QUERY_TIMEOUT); 0 stands for unset, NaN and 0
TimeoutEnv == {0, 1}

\* loadDbConfig: const timeoutSeconds = parseInt(...) || 10; queryTimeout = timeoutSeconds * 1000
LoadQueryTimeout(env) == (IF env = 0 THEN DefaultTimeoutSeconds ELSE env) * 1000

Conns == 1..connectionLimit

---------------------------------------------------------------------------
(* Input lines.  json: what JSON.parse makes of the line; the other fields *)
(* are those handleRequest reads from a parsed object.  "absent" is the JS *)
(* value undefined.                                                        *)

Ids == {"absent", "null", "1", "2"}
Methods == {"initialize", "tools/list", "tools/call", "notifications/cancelled",
            "foo", "absent"}

Line(json, id, method, params, name, args) ==
  [json |-> json, id |-> id, method |-> method, params |-> params,
   name |-> name, args |-> args]

\* lines that are no JSON object: malformed text (the empty line too), the
\* literal null, and any other non-object value (number, string, array, true)
NonObjectLines ==
  { Line(j, "absent", "absent", "absent", "absent", "absent") :
      j \in {"malformed", "null", "scalar"} }

\* the shapes of params that tools/call distinguishes
ParamShapes ==
  { <<"absent", "absent", "absent">>,
    <<"object", "query", "absent">>,
    <<"object", "query", "empty">>,
    <<"object", "query", "ok">>,
    <<"object", "list_tables", "absent">>,
    <<"object", "describe_table", "absent">>,
    <<"object", "describe_table", "ok">>,
    <<"object", "bogus", "absent">> }

ObjectLines ==
  { Line("object", i, m, "absent", "absent", "absent") :
      i \in Ids, m \in Methods \ {"tools/call"} }
  \cup
  { Line("object", i, "tools/call", p[1], p[2], p[3]) :
      i \in Ids, p \in ParamShapes }

Lines == NonObjectLines \cup ObjectLines

\* tools/call requests that reach the executor
PoolLines ==
  { Line("object", "1", "tools/call", "object", "query", a) : a \in {"ok", "empty"} }

NoLine == Line("none", "absent", "absent", "absent", "absent", "absent")

---------------------------------------------------------------------------
(* Errors (the message of a JS Error) and envelopes *)

Err(msg, arg, n) == [msg |-> msg, arg |-> arg, n |-> n]
NoErr == Err("none", "-", 0)
\* TypeError: destructuring or reading a property of undefined / null
TypeErr == Err("TypeError", "-", 0)
\* new Error(`未知的工具: ${name}`)
UnknownToolErr(name) == Err("unknown tool", name, 0)
\* an error reported by the database or the driver
DbErr(what) == Err("db error", what, 0)
\* new Error(`查询超时：查询执行超过 ${timeoutSeconds} 秒未响应...`)
TimeoutErr(seconds) == Err("timeout", "-", seconds)

ErrorEnvelope(id, code, e) ==
  [id |-> id, kind |-> "error", code |-> code, msg |-> e.msg, arg |-> e.arg, n |-> e.n]
ResultEnvelope(id, what) ==
  [id |-> id, kind |-> "result", code |-> 0, msg |-> what, arg |-> "-", n |-> 0]
NoEnvelope ==
  [id |-> "-", kind |-> "none", code |-> 0, msg |-> "-", arg |-> "-", n |-> 0]

\* a parse error reported as an invalid request
ParseErrorAsInvalidRequest == ErrorEnvelope("null", -32600, Err("Parse error", "-", 0))
ParseErrorEnvelope == ErrorEnvelope("null", -32700, Err("Parse error", "-", 0))

\* an unknown method reported without its name
MethodNotFoundUnnamed(id, method) ==
  ErrorEnvelope(id, -32601, Err("unknown method", "-", 0))
MethodNotFoundEnvelope(id, method) ==
  ErrorEnvelope(id, -32601, Err("unknown method", method, 0))

\* a tools list that lacks describe_table
ToolsListWithoutDescribe(id) ==
  [id |-> id, kind |-> "result", code |-> 0, msg |-> "tools",
   arg |-> "query,list_tables", n |-> 2]
\* case 'tools/list': the literal array of the three tool descriptors; arg
\* names them in order, n counts them
ToolsListEnvelope(id) ==
  [id |-> id, kind |-> "result", code |-> 0, msg |-> "tools",
   arg |-> "query,list_tables,describe_table", n |-> 3]

InternalErrorEnvelope(id, e) == ErrorEnvelope(id, -32603, e)

---------------------------------------------------------------------------
(* The state of executeWithTimeout calls *)

\* The call that holds connection c.
\* pc: "free" (no call holds c), "idq" (await conn.query('SELECT
\*     CONNECTION_ID()')), "exec" (await Promise.race)
\* timer: "none", "armed", "fired" (the timeout callback has started and has
\*     not called reject yet)
\* A call at await pool.getConnection() is an entry of the pool's queue.
FreeCall == [pc |-> "free", id |-> "-", sql |-> "-", timer |-> "none"]

\* The timeout callback that holds connection c as killConn.
\* st: "sent" (await killConn.query), "ok" / "fail" (the server has answered the
\*     KILL, the callback has not resumed yet)
\* target: connId, the session to kill;  live: the call that armed the timer is
\*     still in its Promise.race
\* A callback at await pool.getConnection() is an entry of the pool's queue.
NoKill == [st |-> "none", target |-> 0, live |-> FALSE]

CallWaiter(id, sql) ==
  [kind |-> "call", id |-> id, sql |-> sql, target |-> 0, live |-> FALSE]
KillWaiter(target) ==
  [kind |-> "kill", id |-> "-", sql |-> "-", target |-> target, live |-> TRUE]

\* the state a step works on; rels lists the connections the step has called
\* release() on so far
World(c, k, p, s) == [calls |-> c, kills |-> k, pool |-> p, sess |-> s, rels |-> <<>>]

\* how many times the step has called release() on connection c
Releases(w, c) == Cardinality({i \in 1..Len(w.rels) : w.rels[i] = c})

IdleSession == [st |-> "idle", killed |-> FALSE]

---------------------------------------------------------------------------
(* The pool (mysql2 createPool with waitForConnections: true,              *)
(* connectionLimit: 5, queueLimit: 0)                                      *)

\* the callback of a getConnection() resumes with connection c: the call sends
\* its session-id query, the timeout callback sends its KILL
Grant(w, waiter, c) ==
  IF waiter.kind = "call"
  THEN [w EXCEPT !.calls[c] = [pc |-> "idq", id |-> waiter.id, sql |-> waiter.sql,
                               timer |-> "none"]]
  ELSE [w EXCEPT !.kills[c] = [st |-> "sent", target |-> waiter.target,
                               live |-> waiter.live]]

\* getConnection() has to open a new connection (which may fail)
PoolMustConnect(w) ==
  /\ w.pool.free = {}
  /\ w.pool.all < connectionLimit

\* the free connection handed out next (connections are interchangeable)
NextFree(free) == CHOOSE c \in free : \A d \in free : c <= d

\* pool.getConnection(): a free connection, else a new one below the limit,
\* else the caller waits in the queue
PoolGetConnection(w, waiter) ==
  IF w.pool.free # {}
  THEN Grant([w EXCEPT !.pool.free = @ \ {NextFree(w.pool.free)}], waiter,
             NextFree(w.pool.free))
  ELSE IF w.pool.all < connectionLimit
  THEN Grant([w EXCEPT !.pool.all = @ + 1], waiter, w.pool.all + 1)
  ELSE [w EXCEPT !.pool.queue = Append(@, waiter)]

\* a release that forgets the waiters
PoolReleaseToFree(w, c) ==
  [w EXCEPT !.pool.free = @ \cup {c}, !.rels = Append(@, c)]

\* conn.release(): the connection goes to the first waiter, else to the free
\* connections
PoolRelease(w, c) ==
  IF w.pool.queue # <<>>
  THEN Grant([w EXCEPT !.pool.queue = Tail(@), !.rels = Append(@, c)],
             Head(w.pool.queue), c)
  ELSE [w EXCEPT !.pool.free = @ \cup {c}, !.rels = Append(@, c)]

\* connections that are checked out: created and not free
CheckedOut(p) == (1..p.all) \ p.free

---------------------------------------------------------------------------
(* executeWithTimeout *)

\* const timeoutSeconds = Math.floor(queryTimeout / 1000)
TimeoutSeconds(qt) == qt \div 1000

\* Statement texts are sequences of characters (strings of length 1).
\* String.prototype.trim: the white space characters among those of the model
WhiteSpace == {" ", "\t"}

\* String.prototype.toUpperCase on one character
UpperChar(ch) ==
  CASE ch = "s" -> "S" [] ch = "e" -> "E" [] ch = "l" -> "L" [] ch = "c" -> "C"
    [] ch = "t" -> "T" [] ch = "h" -> "H" [] ch = "o" -> "O" [] ch = "w" -> "W"
    [] OTHER -> ch

ToUpperCase(t) == [i \in 1..Len(t) |-> UpperChar(t[i])]

RECURSIVE TrimStart(_)
TrimStart(t) ==
  IF t # <<>> /\ Head(t) \in WhiteSpace THEN TrimStart(Tail(t)) ELSE t

RECURSIVE TrimEnd(_)
TrimEnd(t) ==
  IF t # <<>> /\ t[Len(t)] \in WhiteSpace THEN TrimEnd(SubSeq(t, 1, Len(t) - 1)) ELSE t

\* sql.trim()
Trim(t) == TrimEnd(TrimStart(t))

SELECT == <<"S", "E", "L", "E", "C", "T">>

\* String.prototype.startsWith
StartsWith(t, prefix) ==
  Len(t) >= Len(prefix) /\ SubSeq(t, 1, Len(prefix)) = prefix

\* `SELECT /*+ MAX_EXECUTION_TIME(${queryTimeout}) */`
HintedSelect(qt) ==
  SELECT \o <<" ", "/*+ MAX_EXECUTION_TIME(", ToString(qt), ") */">>

\* executeSql.replace(/^SELECT/i, ...): the first six characters, when they
\* spell SELECT in any case, are replaced
ReplaceLeadingSelect(t, qt) ==
  IF Len(t) >= 6 /\ \A i \in 1..6 : UpperChar(t[i]) = SELECT[i]
  THEN HintedSelect(qt) \o SubSeq(t, 7, Len(t))
  ELSE t

\* a rewrite that does not trim
ExecuteSqlUntrimmed(sql, qt) ==
  IF StartsWith(ToUpperCase(sql), SELECT) THEN ReplaceLeadingSelect(sql, qt) ELSE sql

\* let executeSql = sql.trim(); if (executeSql.toUpperCase().startsWith('SELECT'))
\* executeSql = executeSql.replace(...)
ExecuteSql(sql, qt) ==
  IF StartsWith(ToUpperCase(Trim(sql)), SELECT)
  THEN ReplaceLeadingSelect(Trim(sql), qt)
  ELSE Trim(sql)

NoStmt == [input |-> <<>>, sent |-> <<>>, made |-> FALSE]

\* executeWithTimeout prepares the statement text for the argument sql
Prepare(sql) ==
  /\ stmt' = [input |-> sql, sent |-> ExecuteSql(sql, queryTimeout), made |-> TRUE]
  /\ UNCHANGED <<proc, nread, last, calls, kills, pool, sess, queryTimeout>>

\* the timeout callback for session c, if its call still listens, loses its
\* listener: the race of that call is settled
OrphanTask(t, c) ==
  IF t.target = c /\ t.live THEN [t EXCEPT !.live = FALSE] ELSE t

RECURSIVE OrphanQueue(_, _)
OrphanQueue(q, c) ==
  IF q = <<>> THEN <<>>
  ELSE <<OrphanTask(Head(q), c)>> \o OrphanQueue(Tail(q), c)

Orphan(w, c) ==
  [w EXCEPT !.kills = [n \in Conns |-> OrphanTask(@[n], c)],
            !.pool.queue = OrphanQueue(@, c)]

\* a call that releases its connection on the success path only, not in finally
EndCallNoFinally(w, c) ==
  LET w1 == IF w.calls[c].timer = "fired" THEN Orphan(w, c) ELSE w
      w2 == [w1 EXCEPT !.calls[c] = FreeCall,
                       !.sess[c].st = IF @ = "run" THEN "zombie" ELSE @]
  IN  IF w.calls[c].pc = "exec" /\ w.calls[c].timer = "armed"
      THEN PoolRelease(w2, c) ELSE w2

\* a call that leaves without clearTimeout: its timer stays armed
EndCallTimerKept(w, c) ==
  LET w1 == IF w.calls[c].timer = "fired" THEN Orphan(w, c) ELSE w
      w2 == [w1 EXCEPT !.calls[c] = [FreeCall EXCEPT !.timer = w.calls[c].timer],
                       !.sess[c].st = IF @ = "run" THEN "zombie" ELSE @]
  IN  PoolRelease(w2, c)

\* catch { clearTimeout(timeoutHandle); throw } finally { if (conn) conn.release() }
\* and the same on the success path: the call on connection c leaves
\* executeWithTimeout.  A timer that has not fired is cancelled; a callback that
\* has started goes on alone.  The session keeps executing a statement that has
\* not ended.
EndCall(w, c) ==
  LET w1 == IF w.calls[c].timer = "fired" THEN Orphan(w, c) ELSE w
      w2 == [w1 EXCEPT !.calls[c] = FreeCall,
                       !.sess[c].st = IF @ = "run" THEN "zombie" ELSE @]
  IN  PoolRelease(w2, c)

Commit(w) ==
  /\ calls' = w.calls
  /\ kills' = w.kills
  /\ pool' = w.pool
  /\ sess' = w.sess

---------------------------------------------------------------------------
(* handleRequest and the line handler *)

\* a test for the absent id only
IsNotificationAbsentOnly(l) == l.id = "absent"

\* a dispatcher that takes no envelope for a notification
IsNotificationNever(l) == FALSE

\* if (id === undefined || id === null): the envelope is a notification
IsNotification(l) == l.id \in {"absent", "null"}

\* case 'tools/call': what runs up to the call of executeWithTimeout.
\* kind "throw": an exception before any await; kind "exec": the argument passed
\* to executeWithTimeout, "text" for a string (args.sql, 'SHOW TABLE STATUS',
\* `SHOW FULL COLUMNS FROM ${args.table}`) and "undefined" when args has no sql
CallPlan(l) ==
  IF l.params = "absent"
  THEN [kind |-> "throw", err |-> TypeErr, sql |-> "-"]
  ELSE IF l.name = "query"
  THEN IF l.args = "absent"
       THEN [kind |-> "throw", err |-> TypeErr, sql |-> "-"]
       ELSE [kind |-> "exec", err |-> NoErr,
             sql |-> IF l.args = "ok" THEN "text" ELSE "undefined"]
  ELSE IF l.name = "list_tables"
  THEN [kind |-> "exec", err |-> NoErr, sql |-> "text"]
  ELSE IF l.name = "describe_table"
  THEN IF l.args = "absent"
       THEN [kind |-> "throw", err |-> TypeErr, sql |-> "-"]
       ELSE [kind |-> "exec", err |-> NoErr, sql |-> "text"]
  ELSE [kind |-> "throw", err |-> UnknownToolErr(l.name), sql |-> "-"]

\* the switch over method for a request (id present), tools/call apart
StaticResponse(l) ==
  IF l.method = "initialize" THEN ResultEnvelope(l.id, "initialize")
  ELSE IF l.method = "tools/list" THEN ToolsListEnvelope(l.id)
  ELSE MethodNotFoundEnvelope(l.id, l.method)

\* A step of a line handler.  ev: "line" (a line was read; status tells what its
\* handler did up to its first await) or "response" (a handler resumed after
\* executeWithTimeout and returned).  req: the id of the request; env: the
\* envelope handleRequest returned; wrote: lines written by console.log in the
\* step; cause: the error caught, if any; fired: the timer of the call had fired
\* before the statement ended; released: how many times the step called
\* release() on the connection the call had borrowed.
Event(ev, l, status, req, env, wrote, cause, fired, released) ==
  [ev |-> ev, line |-> l, status |-> status, req |-> req, env |-> env,
   wrote |-> wrote, cause |-> cause, fired |-> fired, released |-> released]

NoEvent == Event("none", NoLine, "none", "-", NoEnvelope, 0, NoErr, FALSE, 0)

\* if (response === null) return; console.log(JSON.stringify(response))
LinesWritten(env) == IF env = NoEnvelope THEN 0 ELSE 1

\* handleRequest returned env without awaiting
Returned(l, env, cause) ==
  Event("line", l, IF env = NoEnvelope THEN "discarded" ELSE "responded",
        l.id, env, LinesWritten(env), cause, FALSE, 0)

\* a catch that reports every error as an unknown method
CaughtAsMethodNotFound(id, e) ==
  IF id \in {"absent", "null"} THEN NoEnvelope ELSE ErrorEnvelope(id, -32601, e)

\* handleRequest's catch: if (id !== undefined && id !== null) the error becomes
\* a -32603 envelope
Caught(id, e) == IF id \in {"absent", "null"} THEN NoEnvelope
                 ELSE InternalErrorEnvelope(id, e)

\* a handler resumes after executeWithTimeout threw e
CallFailed(id, e, fired, released) ==
  Event("response", NoLine, "responded", id, Caught(id, e),
        LinesWritten(Caught(id, e)), e, fired, released)

\* a handler resumes after executeWithTimeout returned rows
CallSucceeded(id, fired, released) ==
  Event("response", NoLine, "responded", id, ResultEnvelope(id, "rows"), 1,
        NoErr, fired, released)

\* what Node does with the rejected promise of the async line handler
UnhandledRejections == {"throw", "warn"}

\* executeWithTimeout up to its first await: conn = await pool.getConnection()
StartCall(l, sql, connectOk) ==
  LET w == World(calls, kills, pool, sess)
  IN  IF PoolMustConnect(w) /\ ~connectOk
      THEN \* getConnection() rejects: conn stays null, nothing to release
           /\ last' = [CallFailed(l.id, DbErr("connect"), FALSE, 0)
                         EXCEPT !.ev = "line", !.line = l]
           /\ UNCHANGED <<proc, calls, kills, pool, sess>>
      ELSE /\ last' = Event("line", l, "pending", l.id, NoEnvelope, 0, NoErr, FALSE, 0)
           /\ Commit(PoolGetConnection(w, CallWaiter(l.id, sql)))
           /\ UNCHANGED proc

\* handleRequest(request) up to its first await
HandleRequest(l) ==
  IF l.json = "malformed"
  THEN /\ last' = [Returned(l, ParseErrorEnvelope, NoErr) EXCEPT !.req = "-"]
       /\ UNCHANGED <<proc, calls, kills, pool, sess>>
  ELSE IF l.json = "null"
  THEN \* const { id, method, params } = null throws outside any try
       /\ last' = Event("line", l, "rejected", "-", NoEnvelope, 0, TypeErr, FALSE, 0)
       /\ \E mode \in UnhandledRejections :
            proc' = IF mode = "throw" THEN "exit1" ELSE "running"
       /\ UNCHANGED <<calls, kills, pool, sess>>
  ELSE IF IsNotification(l)
  THEN /\ last' = Returned(l, NoEnvelope, NoErr)
       /\ UNCHANGED <<proc, calls, kills, pool, sess>>
  ELSE IF l.method # "tools/call"
  THEN /\ last' = Returned(l, StaticResponse(l), NoErr)
       /\ UNCHANGED <<proc, calls, kills, pool, sess>>
  ELSE IF CallPlan(l).kind = "throw"
  THEN /\ last' = Returned(l, Caught(l.id, CallPlan(l).err), CallPlan(l).err)
       /\ UNCHANGED <<proc, calls, kills, pool, sess>>
  ELSE \E connectOk \in BOOLEAN : StartCall(l, CallPlan(l).sql, connectOk)

\* a read loop that takes the next line only when no call is in flight
ReadLineSerial(l, max) ==
  /\ proc = "running"
  /\ nread < max
  /\ \A c \in Conns : calls[c].pc = "free"
  /\ nread' = nread + 1
  /\ UNCHANGED <<queryTimeout, stmt>>
  /\ HandleRequest(l)

\* rl.on('line', async (line) => ...)
ReadLine(l, max) ==
  /\ proc = "running"
  /\ nread < max
  /\ nread' = nread + 1
  /\ UNCHANGED <<queryTimeout, stmt>>
  /\ HandleRequest(l)

---------------------------------------------------------------------------
(* executeWithTimeout after its awaits *)

\* the process runs: callbacks of the database and of timers are still handled
Alive == proc \in {"running", "closing"}

\* the answer to SELECT CONNECTION_ID() arrives on connection c.  ok: connId is
\* set, the timer is armed, the statement text is prepared (sql.trim() throws on
\* undefined) and the statement is sent.
IdQueryDone(c, ok) ==
  LET w == World(calls, kills, pool, sess)
  IN  /\ Alive
      /\ calls[c].pc = "idq"
      /\ sess[c].st = "idle"
      /\ UNCHANGED <<proc, nread, queryTimeout, stmt>>
      /\ IF ~ok
         THEN /\ Commit(EndCall(w, c))
              /\ last' = CallFailed(calls[c].id, DbErr("session id"), FALSE,
                                    Releases(EndCall(w, c), c))
         ELSE IF calls[c].sql = "undefined"
         THEN /\ Commit(EndCall([w EXCEPT !.calls[c].timer = "armed"], c))
              /\ last' = CallFailed(calls[c].id, TypeErr, FALSE,
                                    Releases(EndCall(w, c), c))
         ELSE /\ Commit([w EXCEPT !.calls[c].timer = "armed",
                                  !.calls[c].pc = "exec",
                                  !.sess[c] = [st |-> "run", killed |-> FALSE]])
              /\ UNCHANGED last

\* how a statement can end: interrupted once a KILL QUERY has reached it
StmtOutcomes(s) == IF s.killed THEN {"interrupted"} ELSE {"rows", "error"}

\* the statement on connection c ends and queryPromise settles the race
StmtDone(c, outcome) ==
  LET w == World(calls, kills, pool, [sess EXCEPT ![c] = IdleSession])
  IN  /\ Alive
      /\ calls[c].pc = "exec"
      /\ sess[c].st = "run"
      /\ outcome \in StmtOutcomes(sess[c])
      /\ UNCHANGED <<proc, nread, queryTimeout, stmt>>
      /\ Commit(EndCall(w, c))
      /\ last' = IF outcome = "rows"
                 THEN CallSucceeded(calls[c].id, calls[c].timer = "fired",
                                    Releases(EndCall(w, c), c))
                 ELSE CallFailed(calls[c].id, DbErr(outcome), calls[c].timer = "fired",
                                 Releases(EndCall(w, c), c))

\* a statement whose call has already returned ends on the server
ZombieDone(c) ==
  /\ Alive
  /\ sess[c].st = "zombie"
  /\ sess' = [sess EXCEPT ![c] = IdleSession]
  /\ UNCHANGED <<proc, nread, last, calls, kills, pool, queryTimeout, stmt>>

\* a timeout callback whose reject answers even after the race is settled
TimeoutRejectUnheard(w, target, live) ==
  /\ Commit(w)
  /\ last' = CallFailed(w.calls[target].id,
                        TimeoutErr(TimeoutSeconds(queryTimeout)), TRUE, 1)

\* reject(new Error(...)) at the end of the timeout callback for session target.
\* While the race is open the call fails with the timeout error and leaves
\* executeWithTimeout; after it, nobody listens.
TimeoutReject(w, target, live) ==
  IF live
  THEN /\ Commit(EndCall([w EXCEPT !.calls[target].timer = "none"], target))
       /\ last' = CallFailed(w.calls[target].id,
                             TimeoutErr(TimeoutSeconds(queryTimeout)), TRUE,
                             Releases(EndCall(w, target), target))
  ELSE /\ Commit(w)
       /\ UNCHANGED last

\* the timer of the call on connection c fires: the callback runs up to
\* await pool.getConnection()
TimerFire(c, connectOk) ==
  LET w == World([calls EXCEPT ![c].timer = "fired"], kills, pool, sess)
  IN  /\ Alive
      /\ calls[c].timer = "armed"
      /\ UNCHANGED <<proc, nread, queryTimeout, stmt>>
      /\ IF proc = "closing" \/ (PoolMustConnect(w) /\ ~connectOk)
         THEN \* getConnection() rejects (pool closed, or connecting failed): the
              \* catch swallows it and reject follows in the same turn
              TimeoutReject(w, c, TRUE)
         ELSE /\ Commit(PoolGetConnection(w, KillWaiter(c)))
              /\ UNCHANGED last

\* the server executes the KILL QUERY sent on connection c (after whatever that
\* session was still executing)
KillApply(c, ok) ==
  /\ Alive
  /\ kills[c].st = "sent"
  /\ sess[c].st = "idle"
  /\ kills' = [kills EXCEPT ![c].st = IF ok THEN "ok" ELSE "fail"]
  /\ sess' = IF ok /\ sess[kills[c].target].st # "idle"
             THEN [sess EXCEPT ![kills[c].target].killed = TRUE]
             ELSE sess
  /\ UNCHANGED <<proc, nread, last, calls, pool, queryTimeout, stmt>>

\* await killConn.query(...) resumes on connection c: killConn.release() if it
\* did not throw, then reject(...)
KillReply(c) ==
  LET w  == World(calls, [kills EXCEPT ![c] = NoKill], pool, sess)
  IN  /\ Alive
      /\ kills[c].st \in {"ok", "fail"}
      /\ UNCHANGED <<proc, nread, queryTimeout, stmt>>
      /\ TimeoutReject(IF kills[c].st = "ok" THEN PoolRelease(w, c) ELSE w,
                       kills[c].target, kills[c].live)

---------------------------------------------------------------------------
(* Specifications *)

\* the state when main() has attached the 'line' handler: initConnection has
\* opened one connection, tested it and released it
InitWith(envs) ==
  /\ proc = "running"
  /\ nread = 0
  /\ last = NoEvent
  /\ calls = [c \in Conns |-> FreeCall]
  /\ kills = [c \in Conns |-> NoKill]
  /\ pool = [all |-> 1, free |-> {1}, queue |-> <<>>]
  /\ sess = [c \in Conns |-> IdleSession]
  /\ queryTimeout \in {LoadQueryTimeout(e) : e \in envs}
  /\ stmt = NoStmt

Init == InitWith(TimeoutEnv)

Step ==
  \/ \E c \in Conns, ok \in BOOLEAN : IdQueryDone(c, ok)
  \/ \E c \in Conns, outcome \in {"rows", "error", "interrupted"} : StmtDone(c, outcome)
  \/ \E c \in Conns : ZombieDone(c)
  \/ \E c \in Conns, connectOk \in BOOLEAN : TimerFire(c, connectOk)
  \/ \E c \in Conns, ok \in BOOLEAN : KillApply(c, ok)
  \/ \E c \in Conns : KillReply(c)

Next ==
  \/ \E l \in Lines : ReadLine(l, MaxLines)
  \/ Step

Spec == Init /\ [][Next]_vars

PoolInit == InitWith({0})

\* The caller sends MaxPoolLines tools/call lines in one chunk: readline emits
\* them back to back, before any answer of the database is handled.
AllRead == nread = MaxPoolLines

\* the database and the timers when no statement ends on its own: a statement
\* ends only once a KILL QUERY has reached it
PoolIdQueryDone(c, ok) == AllRead /\ IdQueryDone(c, ok)
PoolStmtDone(c) == AllRead /\ StmtDone(c, "interrupted")
PoolZombieDone(c) == AllRead /\ sess[c].killed /\ ZombieDone(c)
PoolTimerFire(c, connectOk) == AllRead /\ TimerFire(c, connectOk)
PoolKillApply(c, ok) == AllRead /\ KillApply(c, ok)
PoolKillReply(c) == AllRead /\ KillReply(c)

PoolStep ==
  \/ \E c \in Conns, ok \in BOOLEAN : PoolIdQueryDone(c, ok)
  \/ \E c \in Conns : PoolStmtDone(c)
  \/ \E c \in Conns : PoolZombieDone(c)
  \/ \E c \in Conns, connectOk \in BOOLEAN : PoolTimerFire(c, connectOk)
  \/ \E c \in Conns, ok \in BOOLEAN : PoolKillApply(c, ok)
  \/ \E c \in Conns : PoolKillReply(c)

PoolNext ==
  \/ \E l \in PoolLines : ReadLine(l, MaxPoolLines)
  \/ PoolStep

PoolSpec == PoolInit /\ [][PoolNext]_vars

\* input lines read under BusySpec after the MaxPoolLines tools/call lines
MaxStaticLines == 1

\* requests and notifications that need no database access
StaticLines ==
  { Line("object", "2", "tools/list", "absent", "absent", "absent"),
    Line("object", "2", "initialize", "absent", "absent", "absent"),
    Line("object", "2", "foo", "absent", "absent", "absent"),
    Line("object", "absent", "notifications/cancelled", "absent", "absent", "absent") }

\* A busy server: the caller sends MaxPoolLines tools/call lines in one chunk
\* and, at any time while these are handled, lines that need no database access
BurstRead == nread >= MaxPoolLines

BusyReadCall(l) == ReadLine(l, MaxPoolLines)
BusyReadStatic(l) == BurstRead /\ ReadLine(l, MaxPoolLines + MaxStaticLines)
BusyIdQueryDone(c, ok) == BurstRead /\ IdQueryDone(c, ok)
BusyStmtDone(c) == BurstRead /\ StmtDone(c, "interrupted")
BusyZombieDone(c) == BurstRead /\ sess[c].killed /\ ZombieDone(c)
BusyTimerFire(c, connectOk) == BurstRead /\ TimerFire(c, connectOk)
BusyKillApply(c, ok) == BurstRead /\ KillApply(c, ok)
BusyKillReply(c) == BurstRead /\ KillReply(c)

BusyNext ==
  \/ \E l \in PoolLines : BusyReadCall(l)
  \/ \E l \in StaticLines : BusyReadStatic(l)
  \/ \E c \in Conns, ok \in BOOLEAN : BusyIdQueryDone(c, ok)
  \/ \E c \in Conns : BusyStmtDone(c)
  \/ \E c \in Conns : BusyZombieDone(c)
  \/ \E c \in Conns, connectOk \in BOOLEAN : BusyTimerFire(c, connectOk)
  \/ \E c \in Conns, ok \in BOOLEAN : BusyKillApply(c, ok)
  \/ \E c \in Conns : BusyKillReply(c)

BusySpec == PoolInit /\ [][BusyNext]_vars

\* envelopes with an absent or null id
NotifyLines ==
  { Line("object", "absent", "notifications/cancelled", "absent", "absent", "absent"),
    Line("object", "null", "notifications/initialized", "absent", "absent", "absent"),
    Line("object", "absent", "notifications/progress", "object", "absent", "absent"),
    Line("object", "null", "tools/call", "object", "query", "ok"),
    Line("object", "absent", "tools/call", "absent", "absent", "absent") }

\* A busy server that receives notifications: as BusySpec, with the lines of
\* NotifyLines after the tools/call lines
NotifyRead(l) == BurstRead /\ ReadLine(l, MaxPoolLines + MaxStaticLines)

NotifyNext ==
  \/ \E l \in PoolLines : BusyReadCall(l)
  \/ \E l \in NotifyLines : NotifyRead(l)
  \/ \E c \in Conns, ok \in BOOLEAN : BusyIdQueryDone(c, ok)
  \/ \E c \in Conns : BusyStmtDone(c)
  \/ \E c \in Conns : BusyZombieDone(c)
  \/ \E c \in Conns, connectOk \in BOOLEAN : BusyTimerFire(c, connectOk)
  \/ \E c \in Conns, ok \in BOOLEAN : BusyKillApply(c, ok)
  \/ \E c \in Conns : BusyKillReply(c)

NotifySpec == PoolInit /\ [][NotifyNext]_vars

\* rl.on('close', ...): the input stream has ended; the handler calls pool.end()
\* and awaits it.  The pool is closed from now on.
Close ==
  /\ proc = "running"
  /\ proc' = "closing"
  /\ UNCHANGED <<nread, last, calls, kills, pool, sess, queryTimeout, stmt>>

\* connection c has no command under way: the quit that pool.end() queued on it
\* behind its commands has been reached
Quiet(c) ==
  /\ sess[c].st = "idle"
  /\ calls[c].pc # "idq"
  /\ kills[c].st # "sent"

\* a close handler that ends the process with code 1
Exit1OnClose ==
  /\ proc = "closing"
  /\ \A c \in 1..pool.all : Quiet(c)
  /\ proc' = "exit1"
  /\ UNCHANGED <<nread, last, calls, kills, pool, sess, queryTimeout, stmt>>

\* await pool.end() resumes when every connection has quit; process.exit(0)
Exit0 ==
  /\ proc = "closing"
  /\ \A c \in 1..pool.all : Quiet(c)
  /\ proc' = "exit0"
  /\ UNCHANGED <<nread, last, calls, kills, pool, sess, queryTimeout, stmt>>

\* Shutdown: the caller sends up to MaxPoolLines tools/call lines in one chunk
\* and closes the stream, at once or at any later moment
Handling == BurstRead \/ proc = "closing"

\* the tools/call line of the shutdown scenario
ShutdownLine == Line("object", "1", "tools/call", "object", "query", "ok")

\* the connection whose statements may outlast the deadline
SlowConns == {1}

\* the database answers the session-id query; a statement ends with rows, or
\* interrupted once a KILL QUERY has reached it
DownIdQueryDone(c) == Handling /\ IdQueryDone(c, TRUE)
DownStmtDone(c) ==
  Handling /\ StmtDone(c, IF sess[c].killed THEN "interrupted" ELSE "rows")
DownZombieDone(c) == Handling /\ ZombieDone(c)
DownTimerFire(c, connectOk) == Handling /\ c \in SlowConns /\ TimerFire(c, connectOk)
DownKillApply(c, ok) == Handling /\ KillApply(c, ok)
DownKillReply(c) == Handling /\ KillReply(c)

\* what the database and the event loop do sooner or later: answer a command
\* that is under way, resume a callback whose await has settled
Progress ==
  \/ \E c \in Conns : DownIdQueryDone(c)
  \/ \E c \in Conns : DownStmtDone(c)
  \/ \E c \in Conns : DownZombieDone(c)
  \/ \E c \in Conns, ok \in BOOLEAN : DownKillApply(c, ok)
  \/ \E c \in Conns : DownKillReply(c)
  \/ Exit0

ShutdownNext ==
  \/ BusyReadCall(ShutdownLine)
  \/ Close
  \/ \E c \in Conns, connectOk \in BOOLEAN : DownTimerFire(c, connectOk)
  \/ Progress

ShutdownSpec == PoolInit /\ [][ShutdownNext]_vars /\ WF_vars(Progress)

\* white space characters before and after the text of an argument
MaxPad == 1

Pads == UNION { [1..n -> WhiteSpace] : n \in 0..MaxPad }

\* first words and rests of the statement texts
FirstWords ==
  { <<>>, SELECT, <<"s", "e", "l", "e", "c", "t">>, <<"S", "e", "l", "e", "c", "T">>,
    <<"S", "E", "L", "E", "C">>, <<"S", "H", "O", "W">>, <<"1">>,
    <<"s", "h", "o", "w", " ", "s", "e", "l", "e", "c", "t">> }
Rests == { <<>>, <<" ", "1">>, <<"1">>, <<" ", "1", " ", " ", "x">> }

\* the arguments of executeWithTimeout: args.sql as the caller wrote it
SqlTexts ==
  { a \o w \o r \o b : a \in Pads, w \in FirstWords, r \in Rests, b \in Pads }

HintNext == \E sql \in SqlTexts : Prepare(sql)

HintSpec == Init /\ [][HintNext]_vars

---------------------------------------------------------------------------
(* Properties *)

Notifying == {"absent", "null"}

\* C1: a line that parses to an envelope whose id is absent or null makes
\* handleRequest return null and the line handler write nothing, whatever its
\* method; no call is started for it and no response is ever written for it.
C1_NotificationsProduceNoOutput ==
  /\ (last.ev = "line" /\ last.line.json = "object" /\ last.line.id \in Notifying)
       => (last.status = "discarded" /\ last.env = NoEnvelope /\ last.wrote = 0)
  /\ last.ev = "response" => last.req \notin Notifying
  /\ \A c \in Conns : calls[c].pc # "free" => calls[c].id \notin Notifying
  /\ \A i \in 1..Len(pool.queue) :
       pool.queue[i].kind = "call" => pool.queue[i].id \notin Notifying

\* a tools/call for the query tool, sent with a null id, has been discarded
C1_Witness ==
  /\ last.ev = "line"
  /\ last.line = Line("object", "null", "tools/call", "object", "query", "ok")
  /\ last.status = "discarded"
  /\ last.wrote = 0

\* C2: a call whose timer fired before its statement ended is answered with the
\* -32603 envelope whose message is the timeout message stating the configured
\* seconds, never with rows or with an error of the database.
C2_FiredTimerAnsweredWithTimeout ==
  (last.ev = "response" /\ last.fired)
    => last.env = [id |-> last.req, kind |-> "error", code |-> -32603,
                   msg |-> "timeout", arg |-> "-", n |-> queryTimeout \div 1000]

\* C3: while a call is past its deadline the server can always take a step
\* towards failing it without any statement ending on its own: no call and no
\* kill attempt waits forever.
C3_NoCallWaitsForever ==
  (\E c \in Conns : calls[c].timer = "fired") => ENABLED PoolStep

\* C4: a call that leaves executeWithTimeout after borrowing a connection has
\* released it exactly once on the way out, on every exit path.
C4_ReleasedExactlyOnce ==
  last.ev = "response" => last.released = 1

\* a call has left through the timeout path and released its connection once
C4_Witness ==
  /\ last.ev = "response"
  /\ last.cause.msg = "timeout"
  /\ last.released = 1

\* C5: every created connection is free or checked out to exactly one
\* operation, and no connection is released while a statement issued on it is
\* still executing.
C5_ConnectionNeverShared ==
  \A c \in 1..pool.all :
    /\ sess[c].st # "zombie"
    /\ c \in pool.free => (calls[c].pc = "free" /\ kills[c].st = "none")
    /\ c \notin pool.free => (calls[c].pc = "free") # (kills[c].st = "none")

\* a line is read while the pool holds no connection for it
ReadWhileExhausted ==
  /\ nread' = nread + 1
  /\ Cardinality(CheckedOut(pool)) = 5

\* who waits, whether or not its call still listens
Waiting(q) == [i \in 1..Len(q) |-> [q[i] EXCEPT !.live = FALSE]]

\* waiter t holds a connection after the step
Served(t) ==
  \E c \in CheckedOut(pool') :
    IF t.kind = "call"
    THEN calls'[c] = [pc |-> "idq", id |-> t.id, sql |-> t.sql, timer |-> "none"]
    ELSE kills'[c].st = "sent" /\ kills'[c].target = t.target /\ kills[c].st # "sent"

\* C6: at most 5 connections are checked out, statement and kill connections
\* together; a call that needs a connection while 5 are checked out is put at
\* the end of the queue and gets no error; nobody waits while a connection is
\* free, and when the queue gets shorter it is its first waiters that left it,
\* each with a connection.
C6_PoolCapacity ==
  /\ [](/\ Cardinality(CheckedOut(pool)) <= 5
        /\ pool.queue # <<>> =>
             (pool.free = {} /\ Cardinality(CheckedOut(pool)) = 5))
  /\ [][/\ ReadWhileExhausted =>
             /\ last'.status = "pending"
             /\ last'.wrote = 0
             /\ Len(pool'.queue) = Len(pool.queue) + 1
             /\ pool'.queue[Len(pool'.queue)].kind = "call"
             /\ SubSeq(pool'.queue, 1, Len(pool.queue)) = pool.queue
        /\ Len(pool'.queue) < Len(pool.queue) =>
             LET d == Len(pool.queue) - Len(pool'.queue)
             IN  /\ \A i \in 1..Len(pool'.queue) :
                      Waiting(pool'.queue)[i] = Waiting(pool.queue)[i + d]
                 /\ \A i \in 1..d : Served(pool.queue[i])]_vars

\* a call waits in the queue while 5 connections are checked out
C6_Witness ==
  /\ Cardinality(CheckedOut(pool)) = 5
  /\ \E i \in 1..Len(pool.queue) : pool.queue[i].kind = "call"
  /\ last.status = "pending"

\* C7: no input line makes handleRequest reject, and the process never exits
\* with code 1 once the read loop has been entered.
C7_NoLineCrashes ==
  /\ last.status # "rejected"
  /\ proc = "running"

\* C8: a line that is not valid JSON makes the handler write exactly one line,
\* the envelope with id null and code -32700, and touches neither the pool nor
\* any call, timer or session.
C8_ParseError ==
  [][(nread' = nread + 1 /\ last'.line.json = "malformed")
       => /\ last'.wrote = 1
          /\ last'.env = [id |-> "null", kind |-> "error", code |-> -32700,
                          msg |-> "Parse error", arg |-> "-", n |-> 0]
          /\ UNCHANGED <<calls, kills, pool, sess, proc>>]_vars

\* a malformed line has been answered while a call was in flight
C8_Witness ==
  /\ last.ev = "line"
  /\ last.line.json = "malformed"
  /\ last.wrote = 1
  /\ \E c \in Conns : calls[c].pc = "exec"

KnownMethods == {"initialize", "tools/list", "tools/call"}

\* C9: an envelope with a non-null id and a method other than initialize,
\* tools/list and tools/call is answered with code -32601, the request's id and
\* a message naming the method; with an absent or null id nothing is written.
C9_MethodNotFound ==
  (last.ev = "line" /\ last.line.json = "object" /\ last.line.method \notin KnownMethods)
    => IF last.line.id \in Notifying
       THEN last.wrote = 0 /\ last.env = NoEnvelope
       ELSE /\ last.wrote = 1
            /\ last.env = [id |-> last.line.id, kind |-> "error", code |-> -32601,
                           msg |-> "unknown method", arg |-> last.line.method,
                           n |-> 0]

\* the unknown method foo, sent with id 2, has been answered
C9_Witness ==
  /\ last.ev = "line"
  /\ last.line.method = "foo"
  /\ last.line.id = "2"
  /\ last.env.code = -32601

\* the step answers or starts a tools/call request
OfToolsCall ==
  \/ last.ev = "response"
  \/ last.ev = "line" /\ last.line.json = "object" /\ last.line.method = "tools/call"

\* C10: every failure that reaches handleRequest while it handles a tools/call
\* request with a non-null id yields exactly one line, the error envelope with
\* the request's id, code -32603 and the failure's message; a result envelope is
\* written only when nothing failed.
C10_FailuresBecomeInternalErrors ==
  (OfToolsCall /\ last.req \notin Notifying /\ last.status = "responded")
    => /\ last.wrote = 1
       /\ last.env.id = last.req
       /\ IF last.cause = NoErr
          THEN last.env.kind = "result"
          ELSE last.env = [id |-> last.req, kind |-> "error", code |-> -32603,
                           msg |-> last.cause.msg, arg |-> last.cause.arg,
                           n |-> last.cause.n]

\* the statement of the request with id 2 failed in the database
C10_Witness ==
  /\ last.ev = "response"
  /\ last.req = "2"
  /\ last.cause = DbErr("error")
  /\ last.env.code = -32603

\* the ids of requests: those of Ids that are neither absent nor null
IdSeq == <<"1", "2">>

\* the calls of requests with id i that have not returned: those that hold a
\* connection and those that wait for one
InFlight(i, cs, q) ==
  Cardinality({c \in Conns : cs[c].pc # "free" /\ cs[c].id = i})
    + Cardinality({n \in 1..Len(q) : q[n].kind = "call" /\ q[n].id = i})

\* C11: a step writes at most one line.  A line read is answered at once with
\* its own id (null for a parse error), or it is a request whose call goes in
\* flight and nothing is written; a line written later answers exactly one
\* call in flight, with that call's id, and ends it; no other step writes or
\* changes what is in flight.  So no request is answered twice or with another
\* request's id.
C11_OneAnswerPerRequest ==
  [][\E more \in
        { IF calls' = calls /\ pool'.queue = pool.queue
          THEN <<0, 0>>
          ELSE << InFlight(IdSeq[1], calls', pool'.queue) - InFlight(IdSeq[1], calls, pool.queue),
                  InFlight(IdSeq[2], calls', pool'.queue) - InFlight(IdSeq[2], calls, pool.queue) >> } :
       /\ last'.wrote <= 1
       /\ nread' = nread + 1 =>
            /\ last'.ev = "line"
            /\ last'.wrote = 1 => last'.env.id = IF last'.line.json = "malformed"
                                                 THEN "null" ELSE last'.line.id
            /\ \A k \in 1..2 :
                 more[k] = IF last'.status = "pending" /\ last'.line.id = IdSeq[k]
                           THEN 1 ELSE 0
            /\ last'.status = "pending" => last'.wrote = 0 /\ last'.line.id \notin Notifying
       /\ nread' = nread =>
            /\ \A k \in 1..2 :
                 /\ more[k] \in {0, -1}
                 /\ more[k] = -1 =>
                      /\ last'.ev = "response"
                      /\ last'.wrote = 1
                      /\ last'.req = IdSeq[k]
                      /\ last'.env.id = IdSeq[k]
                      /\ more[3 - k] = 0
            /\ more = <<0, 0>> => last' = last]_vars

\* a request was answered with rows after its timer had fired, and the timeout
\* callback of that call is still on its way to reject
C11_Witness ==
  /\ last.ev = "response"
  /\ last.fired
  /\ last.env.kind = "result"
  /\ \E c \in Conns : kills[c].st # "none" /\ ~kills[c].live

\* C12: a tools/list request with a non-null id is answered in the step that
\* reads it with the result envelope holding the three descriptors query,
\* list_tables, describe_table in this order, a function of the id alone, in
\* whatever state the server is; the step changes no pool, call, timer, kill
\* or session state.
C12_ToolsListFixed ==
  [][(/\ nread' = nread + 1
      /\ last'.line.json = "object"
      /\ last'.line.method = "tools/list"
      /\ last'.line.id \notin Notifying)
       => /\ last'.wrote = 1
          /\ last'.env = [id |-> last'.line.id, kind |-> "result", code |-> 0,
                          msg |-> "tools",
                          arg |-> "query,list_tables,describe_table", n |-> 3]
          /\ UNCHANGED <<calls, kills, pool, sess, proc, queryTimeout, stmt>>]_vars

\* tools/list was answered while the pool was exhausted, a waiter queued and a
\* timed-out call in flight
C12_Witness ==
  /\ last.ev = "line"
  /\ last.line.method = "tools/list"
  /\ last.env.n = 3
  /\ Cardinality(CheckedOut(pool)) = 5
  /\ pool.queue # <<>>
  /\ \E c \in Conns : calls[c].timer = "fired"

C14_KillOnSeparateConnection ==
  \A c \in Conns : kills[c].st = "sent" => kills[c].target # c

\* C15: a KILL QUERY of a timeout path hits only the statement of the call that
\* timed out: while the KILL is under way the target connection is still held
\* by that call, and a statement that has been killed belongs to a call whose
\* own timer has fired.
C15_KillHitsOwnStatementOnly ==
  /\ \A c \in Conns :
       kills[c].st = "sent" =>
         (calls[kills[c].target].pc = "exec" /\ calls[kills[c].target].timer = "fired")
  /\ \A c \in Conns :
       (calls[c].pc = "exec" /\ sess[c].killed) => calls[c].timer = "fired"

\* C16: a connection borrowed for the KILL goes back to the pool whether the
\* KILL succeeded or failed: every checked-out connection is held by a call or
\* by a kill attempt, so with nothing in flight nothing is checked out.
C16_KillConnectionsReturned ==
  \A c \in CheckedOut(pool) : calls[c].pc # "free" \/ kills[c].st # "none"

\* the kill attempts for session t: timeout callbacks that wait for a
\* connection or have sent their KILL
KillAttempts(t, ks, q) ==
  Cardinality({c \in Conns : ks[c].st # "none" /\ ks[c].target = t})
    + Cardinality({n \in 1..Len(q) : q[n].kind = "kill" /\ q[n].target = t})

\* C17: a call that has left executeWithTimeout leaves no timer behind (only a
\* call in its race has one), and a kill attempt for a session begins only in
\* the step in which the armed timer of the call executing on it fires; so
\* after a statement ended before its deadline, no timer fires, no connection
\* is borrowed for a kill and no KILL QUERY is issued for that call.
C17_EndedCallHasNoTimer ==
  /\ [](\A c \in Conns : calls[c].timer # "none" => calls[c].pc = "exec")
  /\ [][\A t \in Conns :
          KillAttempts(t, kills', pool'.queue) > KillAttempts(t, kills, pool.queue)
            => /\ calls[t].pc = "exec"
               /\ calls[t].timer = "armed"
               /\ calls'[t].timer = "fired"]_vars

\* a statement ended with rows before its deadline: its call is gone, no timer
\* is left and no kill attempt exists
C17_Witness ==
  /\ last.ev = "response"
  /\ ~last.fired
  /\ last.env.kind = "result"
  /\ \A c \in Conns : calls[c].pc = "free" /\ calls[c].timer = "none"
  /\ \A c \in Conns : KillAttempts(c, kills, pool.queue) = 0

\* requests that are answered without the database
NoDatabase == {"initialize", "tools/list", "foo"}

\* C18: while the process runs the next line is accepted whatever is in flight,
\* also with 5 connections checked out and waiters queued; a request that needs
\* no database access is answered in the step that reads it, ahead of the
\* tools/call requests read before it; a tools/call read while 5 connections
\* are checked out gets no answer yet and waits in the queue behind the
\* waiters already there.
C18_ReadLoopNeverWaits ==
  /\ []((proc = "running" /\ BurstRead /\ nread < MaxPoolLines + MaxStaticLines)
          => \A l \in StaticLines : ENABLED BusyReadStatic(l))
  /\ []((proc = "running" /\ nread < MaxPoolLines)
          => \A l \in PoolLines : ENABLED BusyReadCall(l))
  /\ [][nread' = nread + 1 =>
          /\ (last'.line.method \in NoDatabase /\ last'.line.id \notin Notifying)
               => /\ last'.status = "responded"
                  /\ last'.wrote = 1
                  /\ last'.env.id = last'.line.id
                  /\ UNCHANGED <<calls, kills, pool, sess>>
          /\ (last'.line.method = "tools/call" /\ Cardinality(CheckedOut(pool)) = 5)
               => /\ last'.status = "pending"
                  /\ last'.wrote = 0
                  /\ pool'.queue = Append(pool.queue,
                                          CallWaiter(last'.line.id, CallPlan(last'.line).sql))
                  /\ UNCHANGED <<calls, kills, sess>>]_vars

\* a request without database access was answered while five connections were
\* checked out, a statement executing and an earlier tools/call still queued
C18_Witness ==
  /\ last.ev = "line"
  /\ last.line.method \in NoDatabase
  /\ last.status = "responded"
  /\ last.wrote = 1
  /\ Cardinality(CheckedOut(pool)) = 5
  /\ \E c \in Conns : calls[c].pc = "exec"
  /\ \E i \in 1..Len(pool.queue) : pool.queue[i].kind = "call"

\* C19: reading an envelope whose id is absent or null changes the input
\* position only: nothing is written, no connection is acquired or released,
\* no statement is sent, no timer is started, cancelled or fired, no kill
\* attempt begins, and every call in flight stays as it was.
C19_NotificationChangesNothing ==
  [][(nread' = nread + 1 /\ last'.line.json = "object" /\ last'.line.id \in Notifying)
       => /\ UNCHANGED <<calls, kills, pool, sess, proc, queryTimeout, stmt>>
          /\ last'.wrote = 0
          /\ last'.env = NoEnvelope]_vars

\* notifications/cancelled was read while a statement was executing with its
\* timer armed and a call was queued: all of them are still there
C19_Witness ==
  /\ last.ev = "line"
  /\ last.line.method = "notifications/cancelled"
  /\ last.status = "discarded"
  /\ \E c \in Conns : calls[c].pc = "exec" /\ calls[c].timer = "armed"
  /\ \E i \in 1..Len(pool.queue) : pool.queue[i].kind = "call"

\* the letters of a leading SELECT, in either case
SelectAnyCase ==
  << {"S", "s"}, {"E", "e"}, {"L", "l"}, {"E", "e"}, {"C", "c"}, {"T", "t"} >>

BeginsWithSelect(t) ==
  Len(t) >= 6 /\ \A i \in 1..6 : t[i] \in SelectAnyCase[i]

\* the hint for the configured timeout, in milliseconds, as it follows SELECT
HintAfterSelect ==
  <<" ", "/*+ MAX_EXECUTION_TIME(", ToString(queryTimeout), ") */">>

====
